---- MODULE Spec2Model ----
(***************************************************************************)
(* GeminiClient (agentclient.py): the ACP client that drives one child     *)
(* process over line-delimited JSON-RPC.  The host thread calls start,     *)
(* send_input, agent_session_cancel and stop; the write-loop thread does   *)
(* the handshake and drains input_queue; the read-loop thread decodes the  *)
(* lines of the process's output and dispatches them to the callbacks,     *)
(* answering the agent's file requests itself.  Of the host (gemini_cli.py)*)
(* the model has ChatSession's handling of permission requests.            *)
(***************************************************************************)
EXTENDS Integers, Sequences, FiniteSets, TLC

\* ------------------------------------------------------------- bounds
\* Texts the host passes to send_input over one run.
MaxInputs == 2
\* Lines the read-loop takes from the process's output over one run.
MaxLines == 2
\* Calls of agent_session_cancel over one run.
MaxCancels == 1
\* Calls of stop over one run.
MaxStops == 1
\* Messages handed straight to the senders over one run.
MaxSends == 2
\* The windows of the editor, and the chat sessions created over one run.
MaxWindows == 2
MaxSessions == 3

\* The session ids the agent hands out and the ids the agent puts on its
\* lines.  The k-th text the host passes to send_input is written k: texts
\* that differ are the case in which a lost, doubled or reordered prompt shows.
SessionIds == {"s1", "s2"}
InboundIds == {0, 1}

\* ------------------------------------------------------------- state
VARIABLES
    process,        \* self.process: "None", "Popen" (the handle), after the write-loop: "None"
    started,        \* start() was called: "no", "ok", "failed"
    input_queue,    \* self.input_queue: texts and the stop sentinel NoneItem
    message_id,     \* self.message_id
    session_id,     \* self.session_id, "" until a sessionId result is stored
    inited,         \* self.inited
    init_event,     \* self.init_event is set
    session_event,  \* self.session_event is set
    wpc,            \* where the write-loop thread is
    rpc,            \* where the read-loop thread is
    stdin,          \* the request lines written to process.stdin, in order
    stdin_closed,   \* process.stdin.close() was called
    alive,          \* the child process is running
    terminated,     \* process.terminate() was called
    ncalls,         \* how often on_exit and on_session_ready were invoked, and
                    \* on_error by what it reported ("spawn", "write", "agent")
    nlines,         \* lines the read-loop has taken so far
    last,           \* the last turn of the read-loop: what it took, whether the
                    \* dispatch raised, the callbacks it invoked
    submitted,      \* history: the texts passed to send_input, in order
    returned,       \* history: the ids send_input returned, in order
    nstops,         \* history: calls of stop
    ncancels,       \* history: calls of agent_session_cancel
    nassigned,      \* history: assignments to self.session_id
    write_failed,   \* history: the request whose write failed in the write-loop, "" if none
    replied,        \* history: a response to the awaited request came during the pending wait
    early_stop,     \* history: stop() was called while the handshake was under way
    before_stop,    \* history: how many texts had been submitted when stop() was first called
    pending_permissions,  \* ChatSession.pending_permissions: phantom id -> {"msg_id": ...}
    next_phantom_id,      \* ChatSession.next_phantom_id
    show_queue,     \* the show_permission_phantom calls handed to sublime.set_timeout, in order
    phantom_set,    \* the phantoms ChatSession.phantom_set displays, by phantom id
    nresponses,     \* history: responses written for each permission request, by phantom id + 1
    files,          \* the file system: the text files there are, path -> what is stored
    dirs,           \* the file system: the directories there are
    writing,        \* the threads between the start of a write on process.stdin and the end of its flush
    passed,         \* history: the message handed to the sender that wrote the last line
    pipe_closed,    \* the process has closed its end of the input pipe (writes raise BrokenPipeError)
    gemini_clients, \* the module's gemini_clients: window id -> ChatSession (sessions are numbered 1, 2, ...)
    chat_views,     \* the chat views open in each window, each named by the session it was created for
    active_window,  \* sublime.active_window()
    stopped_sessions,  \* history: the sessions whose stop() was called
    nsessions       \* history: the ChatSessions created (and started) so far

vars == << process, started, input_queue, message_id, session_id, inited,
           init_event, session_event, wpc, rpc, stdin, stdin_closed, alive,
           terminated, ncalls, nlines, last, submitted, returned, nstops,
           ncancels,
           nassigned, write_failed, replied, early_stop, before_stop,
           pending_permissions, next_phantom_id, show_queue, phantom_set,
           nresponses, files, dirs, writing, passed, pipe_closed,
           gemini_clients, chat_views, active_window, stopped_sessions,
           nsessions >>

permVars == << pending_permissions, next_phantom_id, show_queue, phantom_set,
               nresponses >>
fsVars == << files, dirs >>
streamVars == << writing, passed, pipe_closed >>
registryVars == << gemini_clients, chat_views, active_window,
                  stopped_sessions, nsessions >>
hostVars == << submitted, returned, nstops, ncancels, early_stop, before_stop >>
sessionVars == << session_id, inited, init_event, session_event, nassigned >>
readVars == << rpc, nlines, last >>
\* One GeminiClient and the ChatSession around it.
engineVars == << process, started, input_queue, message_id, wpc, stdin,
                stdin_closed, alive, terminated, ncalls, write_failed,
                replied, sessionVars, readVars, hostVars, permVars, fsVars,
                streamVars >>

\* The windows of the editor.
Windows == 1..MaxWindows

\* The stop sentinel stop() puts on the queue (None); texts are 1, 2, ...
NoneItem == 0

\* One more invocation of a counted callback.
Count(c) == [ncalls EXCEPT ![c] = @ + 1]

\* message.get("id") of a message that has no id (None).
NoId == -1

\* ErrorCode.InternalError
InternalError == -32603

\* A JSON object with no key (a decoded object is a function from its keys).
EmptyObject == << >>

\* Paths, by their directory part (os.path.dirname, "" when the path has
\* none) and their last component; "" as a path is EmptyPath.
EmptyPath == [dir |-> "", name |-> ""]
Paths ==
    {[dir |-> "", name |-> "notes.txt"],
     [dir |-> "/w", name |-> "a.txt"],
     [dir |-> "/w/new", name |-> "b.txt"]}

\* Texts, character by character.
Contents == {<< "x" >>, << "x", "\r", "y" >>}

\* The option ids a permission request offers.
OptionIds == {"allow", "reject"}

\* What the read-loop has done before its first turn.
NoTurn == [kind |-> "none", raised |-> FALSE, calls |-> << >>]

\* ------------------------------------------------------------- the stream
\* A write on process.stdin goes through when the handle is there, the
\* write side is open and the process still reads; otherwise it raises
\* (AttributeError, ValueError, BrokenPipeError).
CanWrite == process = "Popen" /\ ~stdin_closed /\ alive /\ ~pipe_closed

\* _send_request(method, params): the line written carries the CURRENT value
\* of self.message_id (cur_id); the counter is not advanced here.  Of params
\* the line keeps the session id and the prompt text (0 where there is none).
_send_request(cur_id, method, sid, text) ==
    Append(stdin, [id |-> cur_id, method |-> method, sessionId |-> sid,
                   text |-> text])

\* _send_response(msg_id, resp): the line written; the result is left out
\* when resp is empty.  int(msg_id) is msg_id for the integers the model has
\* (and raises for None, see IntRaises).
_send_response(msg_id, resp) ==
    IF DOMAIN resp = {} THEN [id |-> msg_id] ELSE [id |-> msg_id, result |-> resp]

\* int(msg_id) raises TypeError.
IntRaises(msg_id) == msg_id = NoId

\* _send_error_response(msg_id, code, error_msg): the line written.
_send_error_response(msg_id, code, error_msg) ==
    [id |-> msg_id, error |-> [code |-> code, message |-> error_msg]]

\* A permission response that reports the request as cancelled.
send_permission_response_cancelled(msg_id, option_id) ==
    _send_response(msg_id, [outcome |-> [outcome |-> "cancelled"]])

\* send_permission_response(msg_id, option_id): the line written.
send_permission_response(msg_id, option_id) ==
    _send_response(msg_id, [outcome |-> [outcome |-> "selected",
                                         optionId |-> option_id]])

\* _next_message_id(): the counter advanced by one.
_next_message_id == message_id + 1

\* ------------------------------------------------------------- host thread
Init ==
    /\ process = "None"
    /\ started = "no"
    /\ input_queue = << >>
    /\ message_id = 0
    /\ session_id = ""
    /\ inited = FALSE
    /\ init_event = FALSE
    /\ session_event = FALSE
    /\ wpc = "idle"
    /\ rpc = "idle"
    /\ stdin = << >>
    /\ stdin_closed = FALSE
    /\ alive = FALSE
    /\ terminated = FALSE
    /\ ncalls = [c \in {"on_exit", "on_session_ready", "spawn", "write", "agent"} |-> 0]
    /\ nlines = 0
    /\ last = NoTurn
    /\ submitted = << >>
    /\ returned = << >>
    /\ nstops = 0
    /\ ncancels = 0
    /\ nassigned = 0
    /\ write_failed = ""
    /\ replied = FALSE
    /\ early_stop = FALSE
    /\ before_stop = 0
    /\ pending_permissions = << >>
    /\ next_phantom_id = 0
    /\ show_queue = << >>
    /\ phantom_set = {}
    /\ nresponses = << >>
    /\ files = [p \in {[dir |-> "/w", name |-> "a.txt"]} |-> << "o", "l", "d" >>]
    /\ dirs = {"/w"}
    /\ writing = {}
    /\ passed = EmptyObject
    /\ pipe_closed = FALSE
    /\ gemini_clients = << >>
    /\ chat_views = [w \in Windows |-> {}]
    /\ active_window = 1
    /\ stopped_sessions = {}
    /\ nsessions = 0

\* A write-loop that goes straight to _agent_session_new.
WriteLoopEntry_SkipsInitialize == "session/new"

\* Where _write_loop begins: with _agent_initialize.
WriteLoopEntry == "initialize"

\* start(): Popen succeeds and both threads are started.
start ==
    /\ started = "no"
    /\ started' = "ok"
    /\ process' = "Popen"
    /\ alive' = TRUE
    /\ rpc' = "reading"
    /\ wpc' = WriteLoopEntry
    /\ UNCHANGED << registryVars, permVars, fsVars, streamVars,
                    input_queue, message_id, sessionVars, stdin, stdin_closed,
                    terminated, ncalls, nlines, last,
                    hostVars, write_failed, replied >>

\* A start() whose thread starts sit after the try statement: they run even
\* when Popen has raised.
start_fails_starts_threads ==
    /\ started = "no"
    /\ started' = "failed"
    /\ ncalls' = Count("spawn")
    /\ rpc' = "reading"
    /\ wpc' = WriteLoopEntry
    /\ UNCHANGED << registryVars, permVars, fsVars, streamVars,
                    process, alive, input_queue, message_id,
                    sessionVars, stdin, stdin_closed, terminated, nlines, last,
                    hostVars, write_failed, replied >>

\* start(): Popen raises (FileNotFoundError or another exception); on_error
\* is called and no thread is started.
start_fails ==
    /\ started = "no"
    /\ started' = "failed"
    /\ ncalls' = Count("spawn")
    /\ UNCHANGED << registryVars, permVars, fsVars, streamVars,
                    process, alive, rpc, wpc, input_queue, message_id,
                    sessionVars, stdin, stdin_closed, terminated, nlines, last,
                    hostVars, write_failed, replied >>

\* The write-loop has not yet left the handshake.
InHandshake == wpc \in {"initialize", "init_wait", "session/new", "new_wait"}

\* A stop() that puts the sentinel at the head of the queue.
stop_jumps_queue ==
    /\ nstops < MaxStops
    /\ nstops' = nstops + 1
    /\ input_queue' = << NoneItem >> \o input_queue
    /\ early_stop' = (early_stop \/ InHandshake)
    /\ before_stop' = IF nstops = 0 THEN Len(submitted) ELSE before_stop
    /\ UNCHANGED << registryVars, permVars, fsVars, streamVars,
                    process, started, message_id, sessionVars, wpc, rpc, stdin,
                    stdin_closed, alive, terminated, ncalls, nlines, last,
                    submitted, returned, ncancels, write_failed, replied >>

\* stop(): put the sentinel.
stop ==
    /\ nstops < MaxStops
    /\ nstops' = nstops + 1
    /\ input_queue' = Append(input_queue, NoneItem)
    /\ early_stop' = (early_stop \/ InHandshake)
    /\ before_stop' = IF nstops = 0 THEN Len(submitted) ELSE before_stop
    /\ UNCHANGED << registryVars, permVars, fsVars, streamVars,
                    process, started, message_id, sessionVars, wpc, rpc, stdin,
                    stdin_closed, alive, terminated, ncalls, nlines, last,
                    submitted, returned, ncancels, write_failed, replied >>

\* send_input on a last-in-first-out queue: the text goes to the front.
send_input_lifo(text) ==
    /\ Len(submitted) < MaxInputs
    /\ text = Len(submitted) + 1
    /\ submitted' = Append(submitted, text)
    /\ returned' = Append(returned, _next_message_id)
    /\ message_id' = _next_message_id
    /\ input_queue' = << text >> \o input_queue
    /\ UNCHANGED << registryVars, permVars, fsVars, streamVars,
                    process, started, sessionVars, wpc, rpc, stdin,
                    stdin_closed, alive, terminated, ncalls, nlines, last,
                    nstops, ncancels, early_stop, before_stop, write_failed,
                    replied >>

\* send_input(text): take the next message id, put the text.
send_input(text) ==
    /\ Len(submitted) < MaxInputs
    /\ text = Len(submitted) + 1
    /\ submitted' = Append(submitted, text)
    /\ returned' = Append(returned, _next_message_id)
    /\ message_id' = _next_message_id
    /\ input_queue' = Append(input_queue, text)
    /\ UNCHANGED << registryVars, permVars, fsVars, streamVars,
                    process, started, sessionVars, wpc, rpc, stdin,
                    stdin_closed, alive, terminated, ncalls, nlines, last,
                    nstops, ncancels, early_stop, before_stop, write_failed,
                    replied >>

\* A cancel that also empties the input queue.
agent_session_cancel_drops_queue ==
    /\ ncancels < MaxCancels
    /\ ncancels' = ncancels + 1
    /\ message_id' = _next_message_id
    /\ input_queue' = << >>
    /\ IF CanWrite
         THEN stdin' = _send_request(_next_message_id, "session/cancel",
                                     session_id, 0)
         ELSE stdin' = stdin
    /\ UNCHANGED << registryVars, permVars, fsVars, streamVars,
                    process, started, sessionVars, wpc, rpc,
                    stdin_closed, alive, terminated, ncalls, nlines, last,
                    submitted, returned, nstops, early_stop, before_stop,
                    write_failed,
                    replied >>

\* agent_session_cancel(): take the next message id, then write session/cancel
\* with it; when the write raises, the exception goes to the caller and the
\* id stays taken.
agent_session_cancel ==
    /\ ncancels < MaxCancels
    /\ ncancels' = ncancels + 1
    /\ message_id' = _next_message_id
    /\ IF CanWrite
         THEN stdin' = _send_request(_next_message_id, "session/cancel",
                                     session_id, 0)
         ELSE stdin' = stdin
    /\ UNCHANGED << registryVars, permVars, fsVars, streamVars,
                    process, started, input_queue, sessionVars, wpc, rpc,
                    stdin_closed, alive, terminated, ncalls, nlines, last,
                    submitted, returned, nstops, early_stop, before_stop,
                    write_failed,
                    replied >>

\* ------------------------------------------------------------- write-loop

\* _agent_initialize, first half: write the initialize request.  A write that
\* raises is not caught anywhere in _write_loop: the thread ends there.
_agent_initialize ==
    /\ wpc = "initialize"
    /\ IF CanWrite
         THEN /\ stdin' = _send_request(message_id, "initialize", "", 0)
              /\ wpc' = "init_wait"
              /\ write_failed' = write_failed
         ELSE /\ stdin' = stdin
              /\ wpc' = "crashed"
              /\ write_failed' = "initialize"
    /\ UNCHANGED << registryVars, permVars, fsVars, streamVars,
                    process, started, input_queue, message_id, sessionVars,
                    readVars, stdin_closed, alive, terminated, ncalls,
                    hostVars, replied >>

\* _agent_initialize, second half: init_event.wait(timeout=30) returns
\* because the event is set.
init_wait_set ==
    /\ wpc = "init_wait"
    /\ init_event
    /\ wpc' = "session/new"
    /\ replied' = FALSE
    /\ UNCHANGED << registryVars, permVars, fsVars, streamVars,
                    process, started, input_queue, message_id, sessionVars,
                    readVars, stdin, stdin_closed, alive, terminated,
                    ncalls, hostVars, write_failed >>

\* A wait whose timeout is taken as fatal: the write-loop gives up.
init_wait_timeout_aborts ==
    /\ wpc = "init_wait"
    /\ ~init_event
    /\ wpc' = "crashed"
    /\ replied' = FALSE
    /\ UNCHANGED << registryVars, permVars, fsVars, streamVars,
                    process, started, input_queue, message_id, sessionVars,
                    readVars, stdin, stdin_closed, alive, terminated,
                    ncalls, hostVars, write_failed >>

\* init_event.wait(timeout=30) returns because the 30 seconds ran out.
init_wait_timeout ==
    /\ wpc = "init_wait"
    /\ ~init_event
    /\ wpc' = "session/new"
    /\ replied' = FALSE
    /\ UNCHANGED << registryVars, permVars, fsVars, streamVars,
                    process, started, input_queue, message_id, sessionVars,
                    readVars, stdin, stdin_closed, alive, terminated,
                    ncalls, hostVars, write_failed >>

\* _agent_session_new, first half: write the session/new request.
_agent_session_new ==
    /\ wpc = "session/new"
    /\ IF CanWrite
         THEN /\ stdin' = _send_request(message_id, "session/new", "", 0)
              /\ wpc' = "new_wait"
              /\ write_failed' = write_failed
         ELSE /\ stdin' = stdin
              /\ wpc' = "crashed"
              /\ write_failed' = "session/new"
    /\ UNCHANGED << registryVars, permVars, fsVars, streamVars,
                    process, started, input_queue, message_id, sessionVars,
                    readVars, stdin_closed, alive, terminated, ncalls,
                    hostVars, replied >>

\* session_event.wait(timeout=10) returns because the event is set.
session_wait_set ==
    /\ wpc = "new_wait"
    /\ session_event
    /\ wpc' = "loop"
    /\ replied' = FALSE
    /\ UNCHANGED << registryVars, permVars, fsVars, streamVars,
                    process, started, input_queue, message_id, sessionVars,
                    readVars, stdin, stdin_closed, alive, terminated,
                    ncalls, hostVars, write_failed >>

\* session_event.wait(timeout=10) returns because the 10 seconds ran out.
session_wait_timeout ==
    /\ wpc = "new_wait"
    /\ ~session_event
    /\ wpc' = "loop"
    /\ replied' = FALSE
    /\ UNCHANGED << registryVars, permVars, fsVars, streamVars,
                    process, started, input_queue, message_id, sessionVars,
                    readVars, stdin, stdin_closed, alive, terminated,
                    ncalls, hostVars, write_failed >>

\* A loop body that, after on_error, goes on with the next item of the
\* queue (no break).
_agent_session_prompt_continues ==
    /\ wpc = "loop"
    /\ input_queue # << >>
    /\ Head(input_queue) # NoneItem
    /\ input_queue' = Tail(input_queue)
    /\ IF CanWrite
         THEN /\ stdin' = _send_request(message_id, "session/prompt",
                                        session_id, Head(input_queue))
              /\ wpc' = "loop"
              /\ ncalls' = ncalls
              /\ write_failed' = write_failed
         ELSE /\ stdin' = stdin
              /\ wpc' = "loop"
              /\ ncalls' = Count("write")
              /\ write_failed' = "session/prompt"
    /\ UNCHANGED << registryVars, permVars, fsVars, streamVars,
                    process, started, message_id, sessionVars, readVars,
                    stdin_closed, alive, terminated, hostVars, replied >>

\* The loop body for a text: input_queue.get(), then _agent_session_prompt
\* with the session id of that moment; a write that raises is reported by
\* on_error and ends the loop.
_agent_session_prompt ==
    /\ wpc = "loop"
    /\ input_queue # << >>
    /\ Head(input_queue) # NoneItem
    /\ input_queue' = Tail(input_queue)
    /\ IF CanWrite
         THEN /\ stdin' = _send_request(message_id, "session/prompt",
                                        session_id, Head(input_queue))
              /\ wpc' = "loop"
              /\ ncalls' = ncalls
              /\ write_failed' = write_failed
         ELSE /\ stdin' = stdin
              /\ wpc' = "wait"
              /\ ncalls' = Count("write")
              /\ write_failed' = "session/prompt"
    /\ UNCHANGED << registryVars, permVars, fsVars, streamVars,
                    process, started, message_id, sessionVars, readVars,
                    stdin_closed, alive, terminated, hostVars, replied >>

\* The loop body for the sentinel: close the write side and leave the loop.
write_loop_stop ==
    /\ wpc = "loop"
    /\ input_queue # << >>
    /\ Head(input_queue) = NoneItem
    /\ input_queue' = Tail(input_queue)
    /\ stdin_closed' = TRUE
    /\ wpc' = "wait"
    /\ UNCHANGED << registryVars, permVars, fsVars, streamVars,
                    process, started, message_id, sessionVars, readVars, stdin,
                    alive, terminated, ncalls, hostVars, write_failed,
                    replied >>

\* After the loop: process.wait(timeout=5) returns, the process has exited.
wait_exited ==
    /\ wpc = "wait"
    /\ ~alive
    /\ process' = "None"
    /\ wpc' = "done"
    /\ UNCHANGED << registryVars, permVars, fsVars, streamVars,
                    started, input_queue, message_id, sessionVars, readVars,
                    stdin, stdin_closed, alive, terminated, ncalls,
                    hostVars, write_failed, replied >>

\* After the loop: process.wait(timeout=5) raises TimeoutExpired and the
\* process is terminated.
wait_terminate ==
    /\ wpc = "wait"
    /\ alive
    /\ terminated' = TRUE
    /\ alive' = FALSE
    /\ process' = "None"
    /\ wpc' = "done"
    /\ UNCHANGED << registryVars, permVars, fsVars, streamVars,
                    started, input_queue, message_id, sessionVars, readVars,
                    stdin, stdin_closed, ncalls, hostVars, write_failed,
                    replied >>

_write_loop ==
    \/ _agent_initialize
    \/ init_wait_set
    \/ init_wait_timeout
    \/ _agent_session_new
    \/ session_wait_set
    \/ session_wait_timeout
    \/ _agent_session_prompt
    \/ write_loop_stop
    \/ wait_exited
    \/ wait_terminate

\* ------------------------------------------------------------- inbound lines
\* A decoded JSON object is a function from its keys to their values; a key
\* the object lacks is outside its DOMAIN.

\* The params of a permission request: the options offered and the
\* descriptor of a tool call that is not a file edit.
PermissionParams ==
    [options |-> << [optionId |-> "allow", name |-> "Allow"],
                    [optionId |-> "reject", name |-> "Reject"] >>,
     toolCall |-> [title |-> "Run tests", kind |-> "execute"]]

MessageChunk(kind) == [sessionUpdate |-> kind, content |-> [text |-> "hello"]]

\* The result payloads an agent sends.
Results ==
    {[agentCapabilities |-> EmptyObject]}
      \cup {[sessionId |-> s] : s \in SessionIds}
      \cup {[stopReason |-> "end_turn"], EmptyObject}
      \cup {[agentCapabilities |-> EmptyObject, sessionId |-> "s1"],
            [agentCapabilities |-> EmptyObject, stopReason |-> "end_turn"],
            [sessionId |-> "s1", stopReason |-> "end_turn"],
            [agentCapabilities |-> EmptyObject, sessionId |-> "s1",
             stopReason |-> "end_turn"]}

\* error.data: a mapping (its items in order) or something else.
ErrorObjects ==
    {[code |-> 1, message |-> "boom"],
     [code |-> 1, message |-> "boom", data |-> [dict |-> << <<"reason", "quota">> >>]],
     [code |-> 1, message |-> "boom", data |-> [str |-> "quota"]]}

\* The well-formed JSON objects the agent can send, with and without the
\* keys the handlers index.  The file requests (fs/read_text_file and
\* fs/write_text_file) are in FsMessages.
Messages ==
    {[id |-> i, result |-> r] : i \in InboundIds, r \in Results}
      \cup {[result |-> r] : r \in Results}
      \cup {[id |-> i, error |-> e] : i \in InboundIds, e \in ErrorObjects}
      \cup {[method |-> "session/update",
             params |-> [update |-> MessageChunk(k)]] :
               k \in {"agent_message_chunk", "agent_thought_chunk", "plan"}}
      \cup {[method |-> "session/update"],
            [method |-> "session/update", params |-> EmptyObject],
            [method |-> "session/update", params |-> [update |-> EmptyObject]],
            [method |-> "session/update",
             params |-> [update |-> [sessionUpdate |-> "agent_message_chunk"]]],
            [method |-> "session/update",
             params |-> [update |-> [sessionUpdate |-> "agent_message_chunk",
                                     content |-> EmptyObject]]],
            [method |-> "session/update",
             params |-> [update |-> [sessionUpdate |-> "agent_message_chunk",
                                     content |-> [text |-> ""]]]],
            [method |-> "session/update",
             params |-> [update |-> [sessionUpdate |-> "agent_thought_chunk",
                                     content |-> [text |-> ""]]]],
            [method |-> "session/update",
             params |-> [update |-> [sessionUpdate |-> "agent_thought_chunk",
                                     content |-> EmptyObject]]]}
      \cup {[id |-> i, method |-> "session/request_permission",
             params |-> PermissionParams] : i \in InboundIds}
      \cup {[method |-> "session/request_permission", params |-> PermissionParams],
            [id |-> 0, method |-> "session/request_permission"],
            [id |-> 0, method |-> "session/request_permission",
             params |-> EmptyObject]}
      \cup {[method |-> "session/other"], EmptyObject, [id |-> 0]}
      \cup {[id |-> 0, result |-> [sessionId |-> "s1"],
             error |-> [code |-> 1, message |-> "boom"]],
            [id |-> 0, result |-> [agentCapabilities |-> EmptyObject],
             method |-> "session/update"],
            [id |-> 0, error |-> [code |-> 1, message |-> "boom"],
             method |-> "session/other"]}

\* The lines the process can put on its output: a JSON object, text that is
\* not JSON, or a blank line ("\n", which readline returns as a non-empty
\* string and strip() turns into "").
Lines ==
    {[obj |-> m] : m \in Messages} \cup {[text |-> "not json"], [text |-> ""]}

\* The file requests of the agent: reads and writes of each path, with and
\* without an id, a path, a content or params at all.
FsReads ==
    {[id |-> i, method |-> "fs/read_text_file", params |-> [path |-> p]] :
        i \in InboundIds, p \in Paths}
      \cup {[id |-> 0, method |-> "fs/read_text_file", params |-> EmptyObject],
            [id |-> 0, method |-> "fs/read_text_file",
             params |-> [path |-> EmptyPath]],
            [id |-> 0, method |-> "fs/read_text_file"],
            [method |-> "fs/read_text_file",
             params |-> [path |-> [dir |-> "/w", name |-> "a.txt"]]]}

FsWrites ==
    {[id |-> 1, method |-> "fs/write_text_file",
      params |-> [path |-> p, content |-> c]] : p \in Paths, c \in Contents}
      \cup {[id |-> 1, method |-> "fs/write_text_file",
             params |-> [content |-> << "x" >>]],
            [id |-> 1, method |-> "fs/write_text_file",
             params |-> [path |-> [dir |-> "/w", name |-> "a.txt"]]],
            [method |-> "fs/write_text_file",
             params |-> [path |-> [dir |-> "/w", name |-> "a.txt"],
                         content |-> << "x" >>]]}

FsMessages == FsReads \cup FsWrites

FsLines == {[obj |-> m] : m \in FsMessages}

\* The permission requests of the agent.
PermissionLines ==
    {[obj |-> [id |-> i, method |-> "session/request_permission",
               params |-> PermissionParams]] : i \in InboundIds}
      \cup {[obj |-> [id |-> 0, method |-> "session/request_permission"]]}

\* The lines that bear on the engine: for each way a line can change the
\* session state, release a handshake wait, report an error or end the
\* read-loop, the lines of Lines that do so with the smallest payload.
ProtocolLines ==
    {[obj |-> [id |-> i, result |-> r]] :
        i \in InboundIds,
        r \in {[agentCapabilities |-> EmptyObject], EmptyObject}
                 \cup {[sessionId |-> s] : s \in SessionIds}}
      \cup {[obj |-> [id |-> i, error |-> [code |-> 1, message |-> "boom"]]] :
               i \in InboundIds}
      \cup {[text |-> "not json"]}

\* ------------------------------------------------------------- dispatch
\* What handling one line does: the callbacks it invokes, the session state
\* and the file system it leaves, the response lines it has to write, and
\* whether it ends by raising.
NoEffect ==
    [raised |-> FALSE, calls |-> << >>, inited |-> inited,
     init_event |-> init_event, session_id |-> session_id,
     session_event |-> session_event, assigned |-> 0,
     responses |-> << >>, files |-> files, dirs |-> dirs]

\* A KeyError (message["id"], message["params"], ...) or a JSONDecodeError.
Raises == [NoEffect EXCEPT !.raised = TRUE]

Call(c) == [NoEffect EXCEPT !.calls = << c >>]

\* ", ".join([f"{k}:{v}" for k, v in data.items()]), as the pieces of the text.
RECURSIVE JoinItems(_)
JoinItems(items) ==
    IF items = << >> THEN << >>
    ELSE IF Len(items) = 1 THEN << items[1][1], ":", items[1][2] >>
    ELSE << items[1][1], ":", items[1][2], ", " >> \o JoinItems(Tail(items))

_handle_error(message) ==
    LET error == message.error
        err_msg == IF "message" \in DOMAIN error THEN << error.message >>
                   ELSE << "Internal error" >>
        text == IF "data" \in DOMAIN error /\ "dict" \in DOMAIN error.data
                  THEN JoinItems(error.data.dict)
                  ELSE err_msg
    IN  Call(<< "on_error", text \o << "\n\n" >> >>)

\* A _handle_result that looks for sessionId first.
_handle_result_session_first(msg_id, result) ==
    IF "sessionId" \in DOMAIN result
      THEN [NoEffect EXCEPT !.session_id = result.sessionId,
                            !.assigned = 1,
                            !.session_event = TRUE,
                            !.calls = << <<"on_session_ready">> >>]
    ELSE IF "agentCapabilities" \in DOMAIN result
      THEN [NoEffect EXCEPT !.inited = TRUE, !.init_event = TRUE]
    ELSE IF "stopReason" \in DOMAIN result
      THEN Call(<< "on_stop", msg_id, result.stopReason >>)
    ELSE NoEffect

_handle_result(msg_id, result) ==
    IF "agentCapabilities" \in DOMAIN result
      THEN [NoEffect EXCEPT !.inited = TRUE, !.init_event = TRUE]
    ELSE IF "sessionId" \in DOMAIN result
      THEN [NoEffect EXCEPT !.session_id = result.sessionId,
                            !.assigned = 1,
                            !.session_event = TRUE,
                            !.calls = << <<"on_session_ready">> >>]
    ELSE IF "stopReason" \in DOMAIN result
      THEN Call(<< "on_stop", msg_id, result.stopReason >>)
    ELSE NoEffect

_handle_session_update(update) ==
    IF "sessionUpdate" \notin DOMAIN update THEN Raises
    ELSE IF update.sessionUpdate \in {"agent_message_chunk", "agent_thought_chunk"}
      THEN IF "content" \notin DOMAIN update THEN Raises
           ELSE IF "text" \in DOMAIN update.content /\ update.content.text # ""
             THEN Call(<< IF update.sessionUpdate = "agent_message_chunk"
                            THEN "on_message" ELSE "on_thought",
                          update.content.text >>)
             ELSE NoEffect
    ELSE NoEffect

_handle_permission_request(message) ==
    IF "id" \notin DOMAIN message \/ "params" \notin DOMAIN message THEN Raises
    ELSE Call(<< "on_permission_request", message.id,
                 IF "options" \in DOMAIN message.params
                   THEN message.params.options ELSE << >>,
                 IF "toolCall" \in DOMAIN message.params
                   THEN message.params.toolCall ELSE EmptyObject >>)

\* message.get("params", {}) and message.get("id").
ParamsOf(message) ==
    IF "params" \in DOMAIN message THEN message.params ELSE EmptyObject

IdOf(message) == IF "id" \in DOMAIN message THEN message.id ELSE NoId

\* params.get("path") is there and not empty (`if not file_path` is false).
HasPath(params) == "path" \in DOMAIN params /\ params.path # EmptyPath

\* What f.read() returns for what is stored: a file opened in text mode with
\* the default newline=None is read with universal newlines, "\r\n" and a
\* lone "\r" coming out as "\n".
RECURSIVE ReadText(_)
ReadText(stored) ==
    IF stored = << >> THEN << >>
    ELSE IF Head(stored) = "\r"
      THEN IF Len(stored) >= 2 /\ stored[2] = "\n"
             THEN << "\n" >> \o ReadText(SubSeq(stored, 3, Len(stored)))
             ELSE << "\n" >> \o ReadText(Tail(stored))
    ELSE << Head(stored) >> \o ReadText(Tail(stored))

\* os.linesep, on POSIX.
linesep == << "\n" >>

\* What f.write(content) stores: in text mode each "\n" goes out as
\* os.linesep.
RECURSIVE WriteText(_)
WriteText(content) ==
    IF content = << >> THEN << >>
    ELSE (IF Head(content) = "\n" THEN linesep ELSE << Head(content) >>)
           \o WriteText(Tail(content))

\* str(e) of the exceptions the file handlers catch.
MissingPath == "Missing 'path' parameter"
NoSuchFile == "[Errno 2] No such file or directory"
IntOfNone == "int() argument must be a string, a bytes-like object or a real number, not 'NoneType'"

\* The line _handle_fs_read and _handle_fs_write end with after the file
\* operation went through: the result, or, int(msg_id) raising inside the
\* try, the error response of the except clause.
Respond(msg_id, resp) ==
    IF IntRaises(msg_id)
      THEN _send_error_response(msg_id, InternalError, IntOfNone)
      ELSE _send_response(msg_id, resp)

\* A file read that answers a file that is not there with an empty content.
_handle_fs_read_missing_is_empty(message) ==
    LET params == ParamsOf(message)
        msg_id == IdOf(message)
    IN  [NoEffect EXCEPT !.responses =
           << IF ~HasPath(params)
                THEN _send_error_response(msg_id, InternalError, MissingPath)
              ELSE IF params.path \notin DOMAIN files
                THEN Respond(msg_id, [content |-> << >>])
              ELSE Respond(msg_id, [content |-> ReadText(files[params.path])]) >>]

\* _handle_fs_read: answer with the content of the file, or with an error
\* response when the path is missing or open() raises.
_handle_fs_read(message) ==
    LET params == ParamsOf(message)
        msg_id == IdOf(message)
    IN  [NoEffect EXCEPT !.responses =
           << IF ~HasPath(params)
                THEN _send_error_response(msg_id, InternalError, MissingPath)
              ELSE IF params.path \notin DOMAIN files
                THEN _send_error_response(msg_id, InternalError, NoSuchFile)
              ELSE Respond(msg_id, [content |-> ReadText(files[params.path])]) >>]

\* _handle_fs_write: os.makedirs(os.path.dirname(file_path), exist_ok=True)
\* raises FileNotFoundError for the empty dirname of a path without a
\* directory part; otherwise the directory is there afterwards and the file
\* holds the content.
_handle_fs_write(message) ==
    LET params == ParamsOf(message)
        msg_id == IdOf(message)
        content == IF "content" \in DOMAIN params THEN params.content ELSE << >>
    IN  IF ~HasPath(params)
          THEN [NoEffect EXCEPT !.responses =
                  << _send_error_response(msg_id, InternalError, MissingPath) >>]
        ELSE IF params.path.dir = ""
          THEN [NoEffect EXCEPT !.responses =
                  << _send_error_response(msg_id, InternalError, NoSuchFile) >>]
        ELSE [NoEffect EXCEPT
                !.dirs = dirs \cup {params.path.dir},
                !.files = [q \in DOMAIN files \cup {params.path} |->
                             IF q = params.path THEN WriteText(content)
                             ELSE files[q]],
                !.responses = << Respond(msg_id, [success |-> TRUE]) >>]

\* message.get("method")
Method(message) ==
    IF "method" \in DOMAIN message THEN message.method ELSE "<None>"

_handle_message(message) ==
    IF "result" \in DOMAIN message
      THEN IF "id" \notin DOMAIN message THEN Raises
           ELSE _handle_result(message.id, message.result)
    ELSE IF "error" \in DOMAIN message THEN _handle_error(message)
    ELSE IF Method(message) = "session/update"
      THEN IF "params" \notin DOMAIN message THEN Raises
           ELSE IF "update" \notin DOMAIN message.params THEN Raises
           ELSE _handle_session_update(message.params.update)
    ELSE IF Method(message) = "fs/read_text_file" THEN _handle_fs_read(message)
    ELSE IF Method(message) = "fs/write_text_file" THEN _handle_fs_write(message)
    ELSE IF Method(message) = "session/request_permission"
      THEN _handle_permission_request(message)
    ELSE NoEffect

\* json.loads(line.strip()) and the dispatch of what it returns.
HandleLine(line) ==
    IF "obj" \in DOMAIN line THEN _handle_message(line.obj) ELSE Raises

\* ------------------------------------------------------------- read-loop
OnExit == << "on_exit" >>

\* The counters after the callbacks of one turn.
RECURSIVE Counted(_, _)
Counted(n, calls) ==
    IF calls = << >> THEN n
    ELSE LET c == Head(calls)[1]
             key == IF c = "on_error" THEN "agent" ELSE c
         IN  Counted(IF key \in DOMAIN n THEN [n EXCEPT ![key] = @ + 1] ELSE n,
                     Tail(calls))

\* The requests written for `method`.
Written(method) ==
    {i \in 1..Len(stdin) :
        "method" \in DOMAIN stdin[i] /\ stdin[i].method = method}

\* The handshake request the write-loop is waiting on, "" if it is not waiting.
Awaited ==
    IF wpc = "init_wait" THEN "initialize"
    ELSE IF wpc = "new_wait" THEN "session/new" ELSE ""

\* A response line (result or error) that carries the id of the request the
\* write-loop is waiting on.
Answers(line) ==
    /\ Awaited # ""
    /\ "obj" \in DOMAIN line
    /\ "result" \in DOMAIN line.obj \/ "error" \in DOMAIN line.obj
    /\ "id" \in DOMAIN line.obj
    /\ \E i \in Written(Awaited) : stdin[i].id = line.obj.id

\* The call is one of on_permission_request.
IsPermissionRequest(call) == call[1] = "on_permission_request"

\* ChatSession.on_permission_request, the callback the host registers: file
\* the request under a fresh phantom id and hand the display of its phantom
\* to the main thread.
on_permission_request(msg_id, options, tool_call) ==
    /\ pending_permissions' =
          [q \in DOMAIN pending_permissions \cup {next_phantom_id} |->
              IF q = next_phantom_id THEN [msg_id |-> msg_id]
              ELSE pending_permissions[q]]
    /\ next_phantom_id' = next_phantom_id + 1
    /\ show_queue' = Append(show_queue, next_phantom_id)
    /\ nresponses' = Append(nresponses, 0)
    /\ phantom_set' = phantom_set

\* One turn of the for loop of _read_loop: a line is read, decoded and
\* dispatched, a file request answered on the spot; an exception (of the
\* dispatch, or of the write of a response) ends the loop, and the finally
\* clause calls on_exit.
read_line(line) ==
    LET eff == HandleLine(line)
        raised == eff.raised \/ (eff.responses # << >> /\ ~CanWrite)
        calls == IF raised THEN eff.calls \o << OnExit >> ELSE eff.calls
        requests == SelectSeq(eff.calls, IsPermissionRequest)
    IN
    /\ rpc = "reading"
    /\ nlines < MaxLines
    /\ nlines' = nlines + 1
    /\ last' = [kind |-> IF "obj" \in DOMAIN line THEN "object" ELSE "invalid",
                raised |-> raised, calls |-> calls]
    /\ stdin' = IF CanWrite THEN stdin \o eff.responses ELSE stdin
    /\ files' = eff.files
    /\ dirs' = eff.dirs
    /\ IF requests = << >> THEN UNCHANGED permVars
       ELSE on_permission_request(requests[1][2], requests[1][3], requests[1][4])
    /\ inited' = eff.inited
    /\ init_event' = eff.init_event
    /\ session_id' = eff.session_id
    /\ session_event' = eff.session_event
    /\ nassigned' = nassigned + eff.assigned
    /\ rpc' = IF raised THEN "done" ELSE "reading"
    /\ ncalls' = Counted(ncalls, calls)
    /\ replied' = (replied \/ Answers(line))
    /\ UNCHANGED << registryVars, streamVars, process, started, input_queue, message_id,
                    wpc, stdin_closed, alive, terminated, hostVars,
                    write_failed >>

\* readline returns "": the process has closed its output.
read_eof ==
    /\ rpc = "reading"
    /\ ~alive
    /\ rpc' = "done"
    /\ last' = [kind |-> "eof", raised |-> FALSE, calls |-> << OnExit >>]
    /\ ncalls' = Count("on_exit")
    /\ UNCHANGED << registryVars, permVars, fsVars, streamVars,
                    process, started, input_queue, message_id, sessionVars,
                    wpc, stdin, stdin_closed, alive, terminated, nlines,
                    hostVars, write_failed, replied >>

\* A read-loop whose on_exit call sits after the loop instead of in the
\* finally clause: an exception skips it.
read_error_no_finally ==
    /\ rpc = "reading"
    /\ rpc' = "done"
    /\ last' = [kind |-> "ioerror", raised |-> TRUE, calls |-> << >>]
    /\ UNCHANGED << registryVars, permVars, fsVars, streamVars,
                    process, started, input_queue, message_id, sessionVars,
                    wpc, stdin, stdin_closed, alive, terminated, nlines,
                    ncalls, hostVars, write_failed, replied >>

\* readline itself raises (an I/O or decoding error on the stream).
read_error ==
    /\ rpc = "reading"
    /\ rpc' = "done"
    /\ last' = [kind |-> "ioerror", raised |-> TRUE, calls |-> << OnExit >>]
    /\ ncalls' = Count("on_exit")
    /\ UNCHANGED << registryVars, permVars, fsVars, streamVars,
                    process, started, input_queue, message_id, sessionVars,
                    wpc, stdin, stdin_closed, alive, terminated, nlines,
                    hostVars, write_failed, replied >>

\* _handle_result for a sessionId result, as the write-loop sees it: first
\* the session id is stored and session_event set (which wakes the
\* write-loop) ...
session_result_set(result) ==
    /\ rpc = "reading"
    /\ nlines < MaxLines
    /\ nlines' = nlines + 1
    /\ session_id' = result.sessionId
    /\ session_event' = TRUE
    /\ nassigned' = nassigned + 1
    /\ rpc' = "on_session_ready"
    /\ replied' = (replied \/ Answers([obj |-> [id |-> 0, result |-> result]]))
    /\ UNCHANGED << registryVars, permVars, fsVars, streamVars,
                    process, started, input_queue, message_id, inited,
                    init_event, wpc, stdin, stdin_closed, alive, terminated,
                    ncalls, last, hostVars, write_failed >>

\* ... and only then on_session_ready is invoked.
session_result_callback ==
    /\ rpc = "on_session_ready"
    /\ rpc' = "reading"
    /\ ncalls' = Count("on_session_ready")
    /\ last' = [kind |-> "object", raised |-> FALSE,
                calls |-> << << "on_session_ready" >> >>]
    /\ UNCHANGED << registryVars, permVars, fsVars, streamVars,
                    process, started, input_queue, message_id, sessionVars,
                    wpc, stdin, stdin_closed, alive, terminated, nlines,
                    hostVars, write_failed, replied >>

\* A handling of the agentCapabilities result that sets the event before
\* the flag.
init_result_event_first ==
    /\ rpc = "reading"
    /\ nlines < MaxLines
    /\ nlines' = nlines + 1
    /\ init_event' = TRUE
    /\ rpc' = "init_event.set"
    /\ replied' = (replied \/ Answers([obj |-> [id |-> 0,
                       result |-> [agentCapabilities |-> EmptyObject]]]))
    /\ UNCHANGED << registryVars, permVars, fsVars, streamVars,
                    process, started, input_queue, message_id, session_id,
                    inited, session_event, nassigned, wpc, stdin,
                    stdin_closed, alive, terminated, ncalls, last, hostVars,
                    write_failed >>

\* _handle_result for a result with agentCapabilities, statement by
\* statement: self.inited = True ...
init_result_flag ==
    /\ rpc = "reading"
    /\ nlines < MaxLines
    /\ nlines' = nlines + 1
    /\ inited' = TRUE
    /\ rpc' = "init_event.set"
    /\ replied' = (replied \/ Answers([obj |-> [id |-> 0,
                       result |-> [agentCapabilities |-> EmptyObject]]]))
    /\ UNCHANGED << registryVars, permVars, fsVars, streamVars,
                    process, started, input_queue, message_id, session_id,
                    init_event, session_event, nassigned, wpc, stdin,
                    stdin_closed, alive, terminated, ncalls, last, hostVars,
                    write_failed >>

\* ... and then self.init_event.set().
init_result_set ==
    /\ rpc = "init_event.set"
    /\ rpc' = "reading"
    /\ init_event' = TRUE
    /\ last' = [kind |-> "object", raised |-> FALSE, calls |-> << >>]
    /\ UNCHANGED << registryVars, permVars, fsVars, streamVars,
                    process, started, input_queue, message_id, session_id,
                    inited, session_event, nassigned, wpc, stdin,
                    stdin_closed, alive, terminated, ncalls, nlines,
                    hostVars, write_failed, replied >>

\* _handle_result for a result with sessionId, statement by statement:
\* self.session_id = result["sessionId"] ...
session_result_store(result) ==
    /\ rpc = "reading"
    /\ nlines < MaxLines
    /\ nlines' = nlines + 1
    /\ session_id' = result.sessionId
    /\ nassigned' = nassigned + 1
    /\ rpc' = "session_event.set"
    /\ replied' = (replied \/ Answers([obj |-> [id |-> 0, result |-> result]]))
    /\ UNCHANGED << registryVars, permVars, fsVars, streamVars,
                    process, started, input_queue, message_id, inited,
                    init_event, session_event, wpc, stdin, stdin_closed,
                    alive, terminated, ncalls, last, hostVars, write_failed >>

\* ... then self.session_event.set(); on_session_ready comes next.
session_result_signal ==
    /\ rpc = "session_event.set"
    /\ rpc' = "on_session_ready"
    /\ session_event' = TRUE
    /\ UNCHANGED << registryVars, permVars, fsVars, streamVars,
                    process, started, input_queue, message_id, session_id,
                    inited, init_event, nassigned, wpc, stdin, stdin_closed,
                    alive, terminated, ncalls, nlines, last, hostVars,
                    write_failed, replied >>

\* The read-loop thread, fed the lines of one set.
_read_loop(lines) ==
    \/ \E line \in lines : read_line(line)
    \/ read_eof
    \/ read_error

\* ------------------------------------------------------------- the host's permission prompts
\* show_permission_phantom, run on the main thread for the oldest pending
\* set_timeout: PhantomSet.update([phantom]) makes the new phantom the only
\* one the set displays.  (The tool calls of the model are not file edits,
\* so create_permission_phantom_html indexes nothing that may be missing.)
show_permission_phantom ==
    /\ show_queue # << >>
    /\ phantom_set' = {Head(show_queue)}
    /\ show_queue' = Tail(show_queue)
    /\ UNCHANGED << registryVars, fsVars, streamVars, process, started, input_queue, message_id,
                    sessionVars, readVars, wpc, stdin, stdin_closed, alive,
                    terminated, ncalls, hostVars, write_failed, replied,
                    pending_permissions, next_phantom_id, nresponses >>

\* The user can click an option of a phantom that is displayed, and a second
\* click on an answered one may still be under way.
CanClick(phantom_id) ==
    \/ phantom_id \in phantom_set
    \/ nresponses[phantom_id + 1] > 0

\* handle_permission_selection for the href "phantom_<id>:<option>": a
\* request no longer pending is ignored; otherwise the response is written,
\* every phantom removed and the entry deleted.  When the write raises, the
\* except clause logs it and nothing has changed.
handle_permission_selection(phantom_id, option_id) ==
    /\ CanClick(phantom_id)
    /\ IF phantom_id \in DOMAIN pending_permissions /\ CanWrite
         THEN /\ stdin' = Append(stdin,
                     send_permission_response(
                         pending_permissions[phantom_id].msg_id, option_id))
              /\ phantom_set' = {}
              /\ pending_permissions' =
                    [q \in DOMAIN pending_permissions \ {phantom_id} |->
                        pending_permissions[q]]
              /\ nresponses' = [nresponses EXCEPT ![phantom_id + 1] = @ + 1]
         ELSE UNCHANGED << stdin, phantom_set, pending_permissions, nresponses >>
    /\ UNCHANGED << registryVars, fsVars, streamVars, process, started, input_queue, message_id,
                    sessionVars, readVars, wpc, stdin_closed, alive,
                    terminated, ncalls, hostVars, write_failed, replied,
                    next_phantom_id, show_queue >>

\* ------------------------------------------------------------- the host's registry of sessions
\* The user brings a window to the front.
focus_window(w) ==
    /\ active_window # w
    /\ active_window' = w
    /\ UNCHANGED << engineVars, gemini_clients, chat_views, stopped_sessions,
                    nsessions >>

\* GeminiCliCommand.run in window w, the window the user is in: with an
\* entry for the window and a chat view among its views, focus that view
\* and return; otherwise drop a stale entry, create a chat view and a
\* ChatSession, file the session under the window and start it.
GeminiCliCommand_run(w) ==
    /\ w = active_window
    /\ IF w \in DOMAIN gemini_clients /\ chat_views[w] # {}
         THEN UNCHANGED << gemini_clients, chat_views, nsessions >>
         ELSE /\ nsessions < MaxSessions
              /\ nsessions' = nsessions + 1
              /\ chat_views' = [chat_views EXCEPT ![w] = @ \cup {nsessions + 1}]
              /\ gemini_clients' =
                    [x \in DOMAIN gemini_clients \cup {w} |->
                        IF x = w THEN nsessions + 1 ELSE gemini_clients[x]]
    /\ UNCHANGED << engineVars, active_window, stopped_sessions >>

\* GeminiChatViewListener.on_close for the chat view v that window w owned.
\* view.window() gives the owner (found) or, the view being detached
\* already, None: then the window looked up is sublime.active_window().
\* The session filed under that window is stopped and its entry deleted.
on_close(w, v, found) ==
    LET window_id == IF found THEN w ELSE active_window IN
    /\ v \in chat_views[w]
    /\ chat_views' = [chat_views EXCEPT ![w] = @ \ {v}]
    /\ IF window_id \in DOMAIN gemini_clients
         THEN /\ stopped_sessions' =
                    stopped_sessions \cup {gemini_clients[window_id]}
              /\ gemini_clients' =
                    [x \in DOMAIN gemini_clients \ {window_id} |->
                        gemini_clients[x]]
         ELSE UNCHANGED << stopped_sessions, gemini_clients >>
    /\ UNCHANGED << engineVars, active_window, nsessions >>

\* ------------------------------------------------------------- the process
\* The child process exits on its own; its end of both pipes closes.
process_exits ==
    /\ alive
    /\ alive' = FALSE
    /\ UNCHANGED << registryVars, permVars, fsVars, streamVars,
                    process, started, input_queue, message_id, sessionVars,
                    readVars, wpc, stdin, stdin_closed, terminated, ncalls,
                    hostVars, write_failed, replied >>

\* The process closes its end of the input pipe and goes on running: from
\* now on a write on process.stdin raises BrokenPipeError.
agent_closes_input ==
    /\ alive
    /\ ~pipe_closed
    /\ pipe_closed' = TRUE
    /\ UNCHANGED << registryVars, permVars, fsVars, writing, passed,
                    process, started, input_queue, message_id, sessionVars,
                    readVars, wpc, stdin, stdin_closed, alive, terminated,
                    ncalls, hostVars, write_failed, replied >>

\* ------------------------------------------------------------- the senders, called directly
\* The dict _send_request builds for json.dumps: `if params:` leaves an
\* empty params out.
RequestLine(msg_id, method, params) ==
    IF DOMAIN params = {} THEN [id |-> msg_id, method |-> method]
    ELSE [id |-> msg_id, method |-> method, params |-> params]

\* What the senders are called with.
SentMethods == {"session/new", "session/cancel"}
SentParams == {EmptyObject, [sessionId |-> "s1"]}
SentResults == {EmptyObject, [success |-> TRUE]}

\* _send_request(method, params); the id is the current self.message_id.
call_send_request(method, params) ==
    /\ CanWrite
    /\ Len(stdin) < MaxSends
    /\ stdin' = Append(stdin, RequestLine(message_id, method, params))
    /\ passed' = [id |-> message_id, method |-> method, params |-> params]
    /\ UNCHANGED << registryVars, permVars, fsVars, writing, pipe_closed,
                    process, started, input_queue, message_id, sessionVars,
                    readVars, wpc, stdin_closed, alive, terminated, ncalls,
                    hostVars, write_failed, replied >>

\* _send_response(msg_id, resp)
call_send_response(msg_id, resp) ==
    /\ CanWrite
    /\ Len(stdin) < MaxSends
    /\ stdin' = Append(stdin, _send_response(msg_id, resp))
    /\ passed' = [id |-> msg_id, result |-> resp]
    /\ UNCHANGED << registryVars, permVars, fsVars, writing, pipe_closed,
                    process, started, input_queue, message_id, sessionVars,
                    readVars, wpc, stdin_closed, alive, terminated, ncalls,
                    hostVars, write_failed, replied >>

\* _send_error_response(msg_id, code, error_msg)
call_send_error_response(msg_id, code, error_msg) ==
    /\ CanWrite
    /\ Len(stdin) < MaxSends
    /\ stdin' = Append(stdin, _send_error_response(msg_id, code, error_msg))
    /\ passed' = [id |-> msg_id, error |-> [code |-> code, message |-> error_msg]]
    /\ UNCHANGED << registryVars, permVars, fsVars, writing, pipe_closed,
                    process, started, input_queue, message_id, sessionVars,
                    readVars, wpc, stdin_closed, alive, terminated, ncalls,
                    hostVars, write_failed, replied >>

\* ------------------------------------------------------------- writes, statement by statement
\* Each sender is stdin.write(line) followed by stdin.flush(), with nothing
\* that keeps another thread out in between.  The three threads that write:
\* the write-loop (its handshake requests), the read-loop (the response to a
\* file request) and the host thread (agent_session_cancel).

\* The write-loop is at the write of _send_request for initialize or
\* session/new.
write_loop_write ==
    /\ wpc \in {"initialize", "session/new"}
    /\ "write_loop" \notin writing
    /\ CanWrite
    /\ stdin' = _send_request(message_id, wpc, "", 0)
    /\ writing' = writing \cup {"write_loop"}
    /\ UNCHANGED << registryVars, permVars, fsVars, passed, pipe_closed,
                    process, started, input_queue, message_id, sessionVars,
                    readVars, wpc, stdin_closed, alive, terminated, ncalls,
                    hostVars, write_failed, replied >>

\* ... and at the end of its flush; the wait follows.
write_loop_flush ==
    /\ "write_loop" \in writing
    /\ writing' = writing \ {"write_loop"}
    /\ wpc' = IF wpc = "initialize" THEN "init_wait" ELSE "new_wait"
    /\ UNCHANGED << registryVars, permVars, fsVars, passed, pipe_closed,
                    process, started, input_queue, message_id, sessionVars,
                    readVars, stdin, stdin_closed, alive, terminated, ncalls,
                    hostVars, write_failed, replied >>

\* The read-loop takes a file request, serves it and is at the write of
\* its response.
read_loop_write(line) ==
    LET eff == HandleLine(line) IN
    /\ rpc = "reading"
    /\ nlines < MaxLines
    /\ CanWrite
    /\ nlines' = nlines + 1
    /\ rpc' = "flush"
    /\ stdin' = stdin \o eff.responses
    /\ files' = eff.files
    /\ dirs' = eff.dirs
    /\ writing' = writing \cup {"read_loop"}
    /\ UNCHANGED << registryVars, permVars, passed, pipe_closed,
                    process, started, input_queue, message_id, sessionVars,
                    wpc, stdin_closed, alive, terminated, ncalls, last,
                    hostVars, write_failed, replied >>

\* ... and at the end of its flush; the handler returns.
read_loop_flush ==
    /\ rpc = "flush"
    /\ rpc' = "reading"
    /\ writing' = writing \ {"read_loop"}
    /\ last' = [kind |-> "object", raised |-> FALSE, calls |-> << >>]
    /\ UNCHANGED << registryVars, permVars, fsVars, passed, pipe_closed,
                    process, started, input_queue, message_id, sessionVars,
                    wpc, stdin, stdin_closed, alive, terminated, ncalls,
                    nlines, hostVars, write_failed, replied >>

\* The host thread, in agent_session_cancel, is at the write of
\* _send_request.
cancel_write ==
    /\ ncancels < MaxCancels
    /\ "host" \notin writing
    /\ CanWrite
    /\ ncancels' = ncancels + 1
    /\ message_id' = _next_message_id
    /\ stdin' = _send_request(_next_message_id, "session/cancel", session_id, 0)
    /\ writing' = writing \cup {"host"}
    /\ UNCHANGED << registryVars, permVars, fsVars, passed, pipe_closed,
                    process, started, input_queue, sessionVars, readVars,
                    wpc, stdin_closed, alive, terminated, ncalls,
                    submitted, returned, nstops, early_stop, before_stop,
                    write_failed, replied >>

\* ... and at the end of its flush.
cancel_flush ==
    /\ "host" \in writing
    /\ writing' = writing \ {"host"}
    /\ UNCHANGED << registryVars, permVars, fsVars, passed, pipe_closed,
                    process, started, input_queue, message_id, sessionVars,
                    readVars, wpc, stdin, stdin_closed, alive, terminated,
                    ncalls, hostVars, write_failed, replied >>

\* ------------------------------------------------------------- specification
Host ==
    \/ start
    \/ start_fails
    \/ stop
    \/ \E text \in 1..MaxInputs : send_input(text)

\* The engine: the host starting, submitting and stopping, the two threads
\* and the process.
Next == Host \/ _write_loop \/ _read_loop(ProtocolLines) \/ process_exits

Spec == Init /\ [][Next]_vars

\* The engine with the host also cancelling.
CancelNext == Next \/ agent_session_cancel

CancelSpec == Init /\ [][CancelNext]_vars

\* The read-loop on its own, fed every line of Lines: what one line does
\* depends on the line and the session state, not on the other threads.
\* The replies to the handshake: the lines that set the session id and
\* release the waits of the write-loop.
HandshakeLines ==
    {[obj |-> [id |-> 0, result |-> r]] :
        r \in {[agentCapabilities |-> EmptyObject], [sessionId |-> "s1"]}}

\* The write-loop of a session the host does not stop: the handshake, the
\* prompts, and the end of the thread after a prompt whose write failed.
WriteLoopRunning ==
    \/ _agent_initialize
    \/ init_wait_set
    \/ init_wait_timeout
    \/ _agent_session_new
    \/ session_wait_set
    \/ session_wait_timeout
    \/ _agent_session_prompt
    \/ wait_exited

\* The host submits texts and cancels while the session is set up and used.
CancelSessionNext ==
    \/ start
    \/ \E text \in 1..MaxInputs : send_input(text)
    \/ agent_session_cancel
    \/ WriteLoopRunning
    \/ _read_loop(HandshakeLines)
    \/ process_exits

CancelSessionSpec == Init /\ [][CancelSessionNext]_vars

\* The write-loop of a session whose session/new reply comes within the
\* 10 seconds of the wait: that wait ends because the event is set.
WriteLoopReplied ==
    \/ _agent_initialize
    \/ init_wait_set
    \/ init_wait_timeout
    \/ _agent_session_new
    \/ session_wait_set
    \/ _agent_session_prompt
    \/ write_loop_stop
    \/ wait_exited
    \/ wait_terminate

\* The session is set up while the host submits texts; the handling of the
\* sessionId result is interleaved with the write-loop statement by
\* statement.
ReadyNext ==
    \/ Host
    \/ WriteLoopReplied
    \/ _read_loop({[obj |-> [id |-> 0,
                             result |-> [agentCapabilities |-> EmptyObject]]]})
    \/ \E s \in SessionIds : session_result_set([sessionId |-> s])
    \/ session_result_callback
    \/ process_exits

ReadySpec == Init /\ [][ReadyNext]_vars

\* The write-loop of a session in which the host submits no text and the
\* agent sends no result: the handshake waits time out, and the loop ends
\* when the host stops the client.
WriteLoopIdle ==
    \/ _agent_initialize
    \/ init_wait_timeout
    \/ _agent_session_new
    \/ session_wait_timeout
    \/ write_loop_stop
    \/ wait_exited
    \/ wait_terminate

\* The agent asks for permissions and the user answers in the chat view.
PermissionNext ==
    \/ start
    \/ stop
    \/ WriteLoopIdle
    \/ _read_loop(PermissionLines)
    \/ show_permission_phantom
    \/ \E phantom_id \in 0..(next_phantom_id - 1), option_id \in OptionIds :
          handle_permission_selection(phantom_id, option_id)
    \/ process_exits

PermissionSpec == Init /\ [][PermissionNext]_vars

\* The agent reads and writes files through the client.
FsNext ==
    \/ start
    \/ stop
    \/ WriteLoopIdle
    \/ _read_loop(FsLines)
    \/ process_exits

FsSpec == Init /\ [][FsNext]_vars

\* The senders called with every kind of message.
SendersNext ==
    \/ start
    \/ \E method \in SentMethods, params \in SentParams :
          call_send_request(method, params)
    \/ \E msg_id \in InboundIds, resp \in SentResults :
          call_send_response(msg_id, resp)
    \/ \E msg_id \in InboundIds :
          call_send_error_response(msg_id, InternalError, MissingPath)

SendersSpec == Init /\ [][SendersNext]_vars

\* The three writing threads, their writes taken statement by statement.
StreamNext ==
    \/ start
    \/ write_loop_write
    \/ write_loop_flush
    \/ init_wait_timeout
    \/ \E m \in FsMessages : read_loop_write([obj |-> m])
    \/ read_loop_flush
    \/ cancel_write
    \/ cancel_flush

StreamSpec == Init /\ [][StreamNext]_vars

\* The handshake with the handling of its two results interleaved with the
\* write-loop statement by statement.
SignalNext ==
    \/ start
    \/ \E text \in 1..MaxInputs : send_input(text)
    \/ WriteLoopRunning
    \/ init_result_flag
    \/ init_result_set
    \/ \E s \in SessionIds : session_result_store([sessionId |-> s])
    \/ session_result_signal
    \/ session_result_callback
    \/ process_exits

SignalSpec == Init /\ [][SignalNext]_vars

\* A session the host does not stop, with a process that may close its end
\* of the input pipe, or exit, at any moment.  The write-loop thread keeps
\* running: process.wait(timeout=5) returns or times out.
PromptFailNext ==
    \/ start
    \/ \E text \in 1..MaxInputs : send_input(text)
    \/ WriteLoopRunning
    \/ wait_terminate
    \/ _read_loop(HandshakeLines)
    \/ process_exits
    \/ agent_closes_input

PromptFailSpec ==
    /\ Init
    /\ [][PromptFailNext]_vars
    /\ WF_vars(wait_exited)
    /\ WF_vars(wait_terminate)

\* The host: the user moves between windows, runs the start command and
\* closes chat views.
RegistryNext ==
    \/ \E w \in Windows : focus_window(w)
    \/ \E w \in Windows : GeminiCliCommand_run(w)
    \/ \E w \in Windows, v \in 1..MaxSessions, found \in BOOLEAN :
          on_close(w, v, found)

RegistrySpec == Init /\ [][RegistryNext]_vars

ReadNext == start \/ _read_loop(Lines) \/ process_exits

ReadSpec == Init /\ [][ReadNext]_vars

\* ------------------------------------------------------------- properties
\* The methods of the request lines written so far, and the texts of the
\* session/prompt lines among them, in order.
IsPrompt(r) == "method" \in DOMAIN r /\ r.method = "session/prompt"
IsText(item) == item # NoneItem

RECURSIVE TextsOf(_)
TextsOf(reqs) ==
    IF reqs = << >> THEN << >> ELSE << Head(reqs).text >> \o TextsOf(Tail(reqs))

PromptTexts == TextsOf(SelectSeq(stdin, IsPrompt))
QueuedTexts == SelectSeq(input_queue, IsText)

\* C1: on the process's input, a session/new line is always preceded by an
\* initialize line, and a session/prompt line by a session/new line.
C1_HandshakeOrder ==
    \A i \in 1..Len(stdin) :
      /\ stdin[i].method = "session/new"
           => \E j \in 1..(i - 1) : stdin[j].method = "initialize"
      /\ stdin[i].method = "session/prompt"
           => \E j \in 1..(i - 1) : stdin[j].method = "session/new"

\* C1 happens: the three kinds of request are on the wire, here with the
\* initialize reply never seen, so that the first wait ended by its timeout.
C1_Witness ==
    /\ \E i, j, k \in 1..Len(stdin) :
         /\ i < j /\ j < k
         /\ stdin[i].method = "initialize"
         /\ stdin[j].method = "session/new"
         /\ stdin[k].method = "session/prompt"
    /\ ~inited

\* C2: as long as no prompt write has failed, the texts written as
\* session/prompt followed by the texts still queued are the texts submitted,
\* in the order submitted: before the handshake is over all of them are
\* queued, and they leave the queue one by one in that order.
C2_QueuedInOrder ==
    write_failed # "session/prompt" => PromptTexts \o QueuedTexts = submitted

\* C2 happens: at least two texts were submitted before session/new was even
\* written (its line carries the id the last of them took), and all of them
\* have been written as prompts.
C2_Witness ==
    /\ wpc = "loop"
    /\ Len(submitted) >= 2
    /\ PromptTexts = submitted
    /\ \E i \in Written("session/new") : stdin[i].id = Len(submitted)

\* C3: every request line carries an id greater than the id of every line
\* written before it.
C3_IdsStrictlyIncrease ==
    \A i, j \in 1..Len(stdin) : i < j => stdin[i].id < stdin[j].id

\* C4: on_exit is never invoked twice, and once the read-loop has ended
\* (end of output or a read error) it has been invoked.
C4_ExitExactlyOnce ==
    /\ ncalls["on_exit"] <= 1
    /\ rpc = "done" => ncalls["on_exit"] = 1
    /\ rpc # "done" => ncalls["on_exit"] = 0

\* C4 happens: the process's output has ended after some lines were read.
C4_Witness ==
    /\ rpc = "done"
    /\ last.kind = "eof"
    /\ nlines > 0
    /\ ncalls["on_exit"] = 1

\* C5: when stop() was called during the handshake, the write-loop does not
\* end without having closed the write side or waited for (and if need be
\* terminated) the process.
C5_EarlyStopShutsDown ==
    (early_stop /\ wpc \in {"done", "crashed"})
        => (stdin_closed \/ terminated \/ process = "None")

\* C6: a handshake wait during which a response to the awaited request was
\* read ends with its event set, not by its timeout.
C6_ReplyReleasesWait ==
    [][(replied /\ Awaited # "" /\ wpc' # wpc)
          => IF Awaited = "initialize" THEN init_event ELSE session_event]_vars

\* C7: the session id is assigned at most once and on_session_ready is
\* invoked at most once.
C7_SessionCapturedOnce ==
    nassigned <= 1 /\ ncalls["on_session_ready"] <= 1

\* C8: after a line that is not valid JSON the read-loop is still reading
\* and no callback was invoked for the line.
C8_InvalidLineSkipped ==
    last.kind = "invalid" => (rpc = "reading" /\ last.calls = << >>)

\* C9: the dispatch of a well-formed JSON object does not raise, and the
\* read-loop is still reading after it.
C9_ObjectNeverRaises ==
    last.kind = "object" => (~last.raised /\ rpc = "reading")

\* C10: once a write has failed in the write-loop, the write-loop issues no
\* further request and on_error has reported the failure.
C10_WriteFailureReported ==
    write_failed # ""
        => (wpc \in {"crashed", "wait", "done"} /\ ncalls["write"] >= 1)

\* C11: after a failed spawn on_error has been invoked exactly once for it,
\* neither thread runs, nothing was written and neither on_session_ready nor
\* on_exit was invoked.
C11_SpawnFailureReportedOnce ==
    started = "failed"
        => /\ ncalls["spawn"] = 1
           /\ wpc = "idle" /\ rpc = "idle"
           /\ process = "None"
           /\ stdin = << >>
           /\ ncalls["on_session_ready"] = 0
           /\ ncalls["on_exit"] = 0

\* C11 happens: the spawn failed and the host went on submitting and stopping.
C11_Witness ==
    started = "failed" /\ Len(submitted) > 0 /\ nstops > 0

\* The first n texts submitted.
FirstSubmitted(n) == SubSeq(submitted, 1, n)

\* C12: once the write-loop has taken the sentinel and closed the write
\* side, the prompts written are exactly the texts submitted before stop()
\* was called, in order, and the write-loop is past its loop; the texts
\* submitted after stop() stay unsent.
C12_StopKeepsQueuedWork ==
    stdin_closed
        => /\ PromptTexts = FirstSubmitted(before_stop)
           /\ wpc \in {"wait", "done"}
           /\ write_failed = ""

\* C12 happens: a text was submitted before stop() and another after it, and
\* the write side is closed.
C12_Witness ==
    /\ stdin_closed
    /\ before_stop >= 1
    /\ Len(submitted) > before_stop
    /\ PromptTexts = FirstSubmitted(before_stop)

\* C13: a call of agent_session_cancel() leaves the input queue as it was
\* and, the write side being open, appends exactly one session/cancel request
\* carrying the session id of that moment (nothing is appended when the
\* write raises); afterwards, as before, the prompts written followed by the
\* texts still queued are the texts submitted, in order.
C13_CancelLeavesQueue ==
    [][ncancels' = ncancels + 1
         => /\ input_queue' = input_queue
            /\ stdin' = IF CanWrite
                          THEN Append(stdin, [id |-> message_id',
                                              method |-> "session/cancel",
                                              sessionId |-> session_id,
                                              text |-> 0])
                          ELSE stdin
            /\ (write_failed' # "session/prompt"
                  => (PromptTexts \o QueuedTexts)' = submitted')]_vars

\* C13 happens: a cancel was written while a text was queued, and that text
\* was written as a prompt after the cancel.
C13_Witness ==
    \E i, j \in 1..Len(stdin) :
        /\ i < j
        /\ stdin[i].method = "session/cancel"
        /\ stdin[i].sessionId \in SessionIds
        /\ stdin[i].id = Len(submitted) + 1
        /\ stdin[j].method = "session/prompt"
        /\ PromptTexts = submitted

\* C14: a wait that ends without its event set moves the write-loop on (from
\* the initialize wait to sending session/new, from the session/new wait to
\* the queue loop); session/new is then written when the write side is open,
\* and every prompt written carries the session id of the moment it is
\* written.
C14_TimeoutDoesNotAbort ==
    [][/\ (wpc = "init_wait" /\ ~init_event /\ wpc' # wpc)
            => wpc' = "session/new"
       /\ (wpc = "new_wait" /\ ~session_event /\ wpc' # wpc)
            => wpc' = "loop"
       /\ (wpc = "session/new" /\ CanWrite /\ wpc' # wpc)
            => /\ Len(stdin') = Len(stdin) + 1
               /\ stdin'[Len(stdin')].method = "session/new"
       /\ (wpc = "loop" /\ Len(stdin') = Len(stdin) + 1)
            => /\ stdin'[Len(stdin')].method = "session/prompt"
               /\ stdin'[Len(stdin')].sessionId = session_id]_vars

\* C14 happens: both waits timed out, session/new and a prompt were written
\* all the same, the prompt with the empty session id.
C14_Witness ==
    /\ ~init_event /\ ~session_event
    /\ \E i, j \in 1..Len(stdin) :
           /\ i < j
           /\ stdin[i].method = "session/new"
           /\ stdin[j].method = "session/prompt"
           /\ stdin[j].sessionId = ""

\* The text of an on_error call without the blank line that ends it.
Body(text) ==
    IF text # << >> /\ text[Len(text)] = "\n\n"
      THEN SubSeq(text, 1, Len(text) - 1) ELSE text

\* data is a mapping.
IsMapping(error) == "data" \in DOMAIN error /\ "dict" \in DOMAIN error.data

\* `text` is the error's message alone or, for a mapping, the message with
\* the summary of the mapping after it.
MessageThenSummary(error, text) ==
    LET body == Body(text)
        summary == JoinItems(error.data.dict)
    IN  IF IsMapping(error)
          THEN /\ Len(body) > Len(summary)
               /\ body[1] = error.message
               /\ SubSeq(body, Len(body) - Len(summary) + 1, Len(body)) = summary
          ELSE body = << error.message >>

\* C15: reading an error response invokes on_error once and nothing else,
\* with the error's message alone or, when data is a mapping, the message
\* followed by the key:value summary of data.
C15_ErrorTextKeepsMessage ==
    [][\A i \in InboundIds, e \in ErrorObjects :
          read_line([obj |-> [id |-> i, error |-> e]])
            => /\ Len(last'.calls) = 1
               /\ last'.calls[1][1] = "on_error"
               /\ MessageThenSummary(e, last'.calls[1][2])]_vars

\* params.update.content.text is present and not empty.
HasText(update) ==
    /\ "content" \in DOMAIN update
    /\ "text" \in DOMAIN update.content
    /\ update.content.text # ""

\* The session/update notifications that have a discriminant.
Updates ==
    {m \in Messages :
        /\ Method(m) = "session/update"
        /\ "params" \in DOMAIN m
        /\ "update" \in DOMAIN m.params
        /\ "sessionUpdate" \in DOMAIN m.params.update}

\* The callbacks the notification is to invoke.
UpdateCalls(update) ==
    IF HasText(update) /\ update.sessionUpdate = "agent_message_chunk"
      THEN << << "on_message", update.content.text >> >>
    ELSE IF HasText(update) /\ update.sessionUpdate = "agent_thought_chunk"
      THEN << << "on_thought", update.content.text >> >>
    ELSE << >>

\* C16: reading a session/update invokes on_message(text) or on_thought(text)
\* once, by its discriminant, when it has a non-empty text, and otherwise no
\* callback at all; the session state stays as it was.
C16_UpdateCallbacks ==
    [][\A m \in Updates :
          read_line([obj |-> m])
            => /\ last'.calls = UpdateCalls(m.params.update)
               /\ UNCHANGED sessionVars]_vars

\* The permission request the agent sends with id i.
PermissionRequest(i) ==
    [id |-> i, method |-> "session/request_permission",
     params |-> PermissionParams]

\* C17: reading a permission request with id r invokes
\* on_permission_request(r, options, toolCall) with the options and the tool
\* call of its params, and a selection of option o for a pending request
\* whose id is r appends exactly one line, with id r and the result
\* {outcome: {outcome: "selected", optionId: o}}.
C17_PermissionRoundTrip ==
    [][/\ \A i \in InboundIds :
             read_line([obj |-> PermissionRequest(i)])
               => last'.calls = << << "on_permission_request", i,
                                      PermissionParams.options,
                                      PermissionParams.toolCall >> >>
       /\ \A p \in DOMAIN pending_permissions, o \in OptionIds :
             (handle_permission_selection(p, o) /\ CanWrite)
               => stdin' = Append(stdin,
                     [id |-> pending_permissions[p].msg_id,
                      result |-> [outcome |-> [outcome |-> "selected",
                                               optionId |-> o]]])]_vars

\* C17 happens: the request with id 1 was answered with the option "reject".
C17_Witness ==
    \E k \in 1..Len(stdin) :
        /\ "result" \in DOMAIN stdin[k]
        /\ stdin[k].id = 1
        /\ stdin[k].result.outcome.optionId = "reject"
        /\ nresponses # << >>

\* The main thread has run show_permission_phantom for the request.
Shown(phantom_id) ==
    \A k \in 1..Len(show_queue) : show_queue[k] # phantom_id

\* C18: no permission request has more than one response written for it, and
\* a request that was put before the user and is not answered yet is still
\* displayed, so that the user can answer it.
C18_ResolvedAtMostOnce ==
    \A p \in 0..(next_phantom_id - 1) :
        /\ nresponses[p + 1] <= 1
        /\ (p \in DOMAIN pending_permissions /\ Shown(p)) => p \in phantom_set

\* The lines the step has appended to the process's input.
Appended == SubSeq(stdin', Len(stdin) + 1, Len(stdin'))

\* An error response, and the one for the request with this id.
IsError(line) == "error" \in DOMAIN line /\ "result" \notin DOMAIN line
IsErrorFor(line, msg_id) == IsError(line) /\ line.id = msg_id

\* C19: a read request whose path is missing, or names no file, never has a
\* result appended; the write side being open, exactly one line is appended
\* for it, an error response carrying the id of the request, and for the
\* missing path its error is InternalError with "Missing 'path' parameter".
C19_ReadErrors ==
    [][\A m \in FsReads :
          (/\ read_line([obj |-> m])
           /\ ~HasPath(ParamsOf(m)) \/ ParamsOf(m).path \notin DOMAIN files)
            => /\ \A k \in 1..Len(Appended) : "result" \notin DOMAIN Appended[k]
               /\ CanWrite
                    => /\ Len(Appended) = 1
                       /\ IsErrorFor(Appended[1], IdOf(m))
                       /\ ~HasPath(ParamsOf(m))
                            => Appended[1].error =
                                 [code |-> -32603,
                                  message |-> "Missing 'path' parameter"]]_vars

\* C19 happens: a request without a path and a request (id 1) for a file
\* that is not there were both answered with an error response.
C19_Witness ==
    \E j, k \in 1..Len(stdin) :
        /\ IsErrorFor(stdin[j], 0)
        /\ stdin[j].error.message = MissingPath
        /\ IsErrorFor(stdin[k], 1)
        /\ stdin[k].error.message = NoSuchFile

\* The write requests that have an id, a path and a content.
WholeWrites ==
    {m \in FsWrites :
        "id" \in DOMAIN m /\ HasPath(m.params) /\ "content" \in DOMAIN m.params}

\* The read request for path p.
ReadRequest(p) ==
    [id |-> 0, method |-> "fs/read_text_file", params |-> [path |-> p]]

\* C20: a write request for (p, c), the write side being open, is answered
\* with the result {success: true}, and a read request for p handled next is
\* answered with the result {content: c}.
C20_WriteThenRead ==
    [][\A m \in WholeWrites :
          (read_line([obj |-> m]) /\ CanWrite)
            => /\ Appended = << [id |-> m.id, result |-> [success |-> TRUE]] >>
               /\ (_handle_fs_read(ReadRequest(m.params.path)).responses)'
                    = << [id |-> 0,
                          result |-> [content |-> m.params.content]] >>]_vars

\* C21: whatever goes wrong while a file request is served, the write of
\* the response included, the handler returns and the read-loop goes on
\* to the next line.
C21_FsNeverRaises ==
    [][\A m \in FsMessages :
          read_line([obj |-> m]) => (~last'.raised /\ rpc' = "reading")]_vars

\* C27: serving a file request invokes no callback of the host.
C27_FsNoCallback ==
    [][\A m \in FsMessages :
          read_line([obj |-> m]) => last'.calls = << >>]_vars

\* The write-loop has closed the process's input or cleared self.process,
\* or the handle was never set.
InputGone == stdin_closed \/ process = "None"

\* C30: no file request is answered (no write on the process's input is
\* attempted by the read-loop) once the write-loop has closed the input or
\* cleared the process handle.
C30_NoWriteAfterClose ==
    [][\A m \in FsMessages : read_line([obj |-> m]) => ~InputGone]_vars

\* How many of result, error and method the object has.
Kinds(message) == Cardinality({"result", "error", "method"} \cap DOMAIN message)

\* C25: reading an object that has more than one of result, error and
\* method, or none, invokes no callback and leaves the session id, the
\* initialized flag and both handshake signals as they were.
C25_AmbiguousIsMalformed ==
    [][\A m \in {x \in Messages : Kinds(x) # 1} :
          read_line([obj |-> m])
            => (last'.calls = << >> /\ UNCHANGED sessionVars)]_vars

\* The result lines that carry an id.
ResultLines == {m \in Messages : "result" \in DOMAIN m /\ "id" \in DOMAIN m}

\* C26: reading a result line has the effect of the first of
\* agentCapabilities, sessionId and stopReason its result holds, and only
\* that one: initialized and the initialize signal set; or the session id
\* captured, the session signal set and on_session_ready invoked; or
\* on_stop(id, stopReason) invoked with the id of the line; with none of the
\* three, nothing.
C26_ResultPrecedence ==
    [][\A m \in ResultLines :
          read_line([obj |-> m])
            => IF "agentCapabilities" \in DOMAIN m.result
                 THEN /\ inited' /\ init_event'
                      /\ last'.calls = << >>
                      /\ UNCHANGED << session_id, session_event, nassigned >>
               ELSE IF "sessionId" \in DOMAIN m.result
                 THEN /\ session_id' = m.result.sessionId /\ session_event'
                      /\ last'.calls = << << "on_session_ready" >> >>
                      /\ UNCHANGED << inited, init_event >>
               ELSE IF "stopReason" \in DOMAIN m.result
                 THEN /\ last'.calls = << << "on_stop", m.id, m.result.stopReason >> >>
                      /\ UNCHANGED sessionVars
               ELSE last'.calls = << >> /\ UNCHANGED sessionVars]_vars

\* C26 happens: a line initialized the client and on_stop was then invoked
\* with the id of a stopReason line.
C26_Witness ==
    /\ inited /\ init_event
    /\ nassigned = 0
    /\ last.calls = << << "on_stop", 1, "end_turn" >> >>

\* C28: once on_exit has been invoked no callback is invoked any more.
C28_ExitIsLast ==
    [][ncalls["on_exit"] >= 1 => (ncalls' = ncalls /\ last' = last)]_vars

\* C29: the prompt written for a text carries the id send_input returned
\* for that text.
C29_PromptCarriesReturnedId ==
    \A k \in 1..Len(submitted), i \in Written("session/prompt") :
        stdin[i].text = submitted[k] => stdin[i].id = returned[k]

\* C24: in a session whose session/new wait ends because the sessionId
\* result arrived, a prompt is written only after on_session_ready has been
\* invoked, and carries a captured session id.
C24_PromptAfterReady ==
    \A i \in Written("session/prompt") :
        /\ ncalls["on_session_ready"] >= 1
        /\ stdin[i].sessionId \in SessionIds

\* C22: the line a sender has written gives back every field of the message
\* the sender was handed (id, method, params; id, result; id, error), with
\* the value it was handed.
C22_CodecLossless ==
    DOMAIN passed # {}
        => \A k \in DOMAIN passed :
              /\ k \in DOMAIN stdin[Len(stdin)]
              /\ stdin[Len(stdin)][k] = passed[k]

\* C23: at most one thread is between the start of a write on the
\* process's input and the end of its flush.
C23_WritesSerialized == Cardinality(writing) <= 1

\* C33: the signals agree with the session state in every state: init_event
\* is set exactly when inited is true, session_event is set only once a
\* session id of a sessionId result is stored, and none of init_event,
\* session_event and inited goes back to unset.
C33_SignalsAgree ==
    /\ [](init_event <=> inited)
    /\ [](session_event => (nassigned >= 1 /\ session_id \in SessionIds))
    /\ [][/\ init_event => init_event'
          /\ session_event => session_event'
          /\ inited => inited']_vars

\* C33 as it holds: init_event is set only when inited is true, and the two
\* agree in every state but the one where the read-loop is between
\* `self.inited = True` and `self.init_event.set()`; session_event is set
\* only once a session id of a sessionId result is stored; none of the three
\* goes back to unset.
C33_SignalsFollowState ==
    /\ [](init_event => inited)
    /\ [](rpc # "init_event.set" => (init_event <=> inited))
    /\ [](session_event => (nassigned >= 1 /\ session_id \in SessionIds))
    /\ [][/\ init_event => init_event'
          /\ session_event => session_event'
          /\ inited => inited']_vars

\* C33 happens: both results were handled to the end, both signals are set
\* and the write-loop has got past both waits with them.
C33_Witness ==
    /\ inited /\ init_event /\ session_event
    /\ nassigned >= 1
    /\ rpc = "reading"
    /\ Written("session/prompt") # {}

\* C32: once the write of a session/prompt has failed, on_error has been
\* called exactly once for a write, the write-loop is out of its queue loop
\* and no session/prompt is written any more, whatever is queued or
\* submitted; the loop leaves the wait with the process reference cleared,
\* the process terminated when it had not exited, and it does get there.
C32_AfterPromptWriteFailure ==
    /\ [](write_failed = "session/prompt"
            => /\ ncalls["write"] = 1
               /\ wpc \in {"wait", "done"}
               /\ (wpc = "done" => process = "None" /\ ~alive))
    /\ [][write_failed = "session/prompt"
            => /\ SelectSeq(stdin, IsPrompt)' = SelectSeq(stdin, IsPrompt)
               /\ ncalls'["write"] = ncalls["write"]
               /\ (wpc = "wait" /\ wpc' # "wait"
                     => /\ process' = "None"
                        /\ terminated' = alive)]_vars
    /\ (write_failed = "session/prompt") ~> (process = "None" /\ wpc = "done")

\* C32 happens: the first prompt could not be written to a process still
\* running, a second text was submitted and stays queued, and the loop has
\* terminated the process and cleared the reference.
C32_Witness ==
    /\ write_failed = "session/prompt"
    /\ Len(submitted) = 2
    /\ input_queue # << >>
    /\ terminated
    /\ process = "None"

\* C31: a turn of the read-loop that handles a fs/read_text_file or
\* fs/write_text_file request puts exactly one line on the process's input,
\* and that line is a result or an error, not both.
C31_FsExactlyOneResponse ==
    [][\A m \in FsMessages :
          read_line([obj |-> m])
            => /\ Len(stdin') = Len(stdin) + 1
               /\ ("result" \in DOMAIN stdin'[Len(stdin')])
                     # ("error" \in DOMAIN stdin'[Len(stdin')])]_vars

\* C34: the start command run in a window that has an entry and a chat view
\* creates no session; closing a chat view stops no session but the one of
\* the window that owned the view and removes no entry but that window's.
C34_OneSessionPerWindow ==
    [][/\ \A w \in Windows :
            (GeminiCliCommand_run(w)
               /\ w \in DOMAIN gemini_clients /\ chat_views[w] # {})
              => (nsessions' = nsessions /\ gemini_clients' = gemini_clients)
       /\ \A w \in Windows, v \in 1..MaxSessions, found \in BOOLEAN :
            on_close(w, v, found)
              => /\ DOMAIN gemini_clients \ DOMAIN gemini_clients' \subseteq {w}
                 /\ \A x \in DOMAIN gemini_clients \ {w} :
                       gemini_clients[x] \in stopped_sessions'
                         => gemini_clients[x] \in stopped_sessions]_vars

====
